---- MODULE Spec2Model ----
(***************************************************************************)
(* Model of x_free_scraper: the persisted quota state (io_utils.py), the   *)
(* three guards, the mark/bump mutators and the orchestration of the       *)
(* status / reset / scout / fetch commands (__main__.py).                  *)
(*                                                                         *)
(* Time is counted in ticks of 1/TicksPerSec second, so that the           *)
(* truncation of int(delta) in seconds_since is visible.  Months are       *)
(* numbered: strftime("%Y-%m") is injective on months, so the stored       *)
(* "YYYY-MM" string is represented by the month's number.                  *)
(***************************************************************************)
EXTENDS Integers, Sequences, FiniteSets, TLC

\* ------------------------------------------------------------------ bounds
TicksPerSec == 2
MaxNowSec == 1800
MaxMonth == 1
MaxResets == 1

\* --------------------------------------------------------- program constants
FIFTEEN_MIN == 15 * 60
QUOTA_LIMIT == 100
MIN_RESULTS == 10
MAX_RESULTS == 100
MAX_QUERY_LEN == 512
NEVER_SECONDS == 10 ^ 9
None == -1

Procs == {1, 2}
SerialProcs == {1}
Months == 0 .. MaxMonth
MaxNow == MaxNowSec * TicksPerSec

\* Durations by which the wall clock advances between two steps:
\* one tick short of the rate window, and exactly the window.
TickSteps ==
    { FIFTEEN_MIN * TicksPerSec - 1,
      FIFTEEN_MIN * TicksPerSec }

\* Values of --max-results given on the command line.
MaxResultsArgs == {5, 10, 250}

\* Number of posts in the "data" of a successful search response to a
\* request for n rows: the remote returns at most n.
RowChoices(n) == {k \in {0, n - 5, n} : k >= 0 /\ k <= n}

\* ------------------------------------------------------------ pure helpers
Max2(a, b) == IF a >= b THEN a ELSE b
Min2(a, b) == IF a <= b THEN a ELSE b

\* The clamp without its lower bound.
clamp_no_floor(n) == Min2(n, MAX_RESULTS)

\* __main__.py:120  expected = max(10, min(args.max_results, 100))
clamp(n) == Max2(MIN_RESULTS, Min2(n, MAX_RESULTS))

\* client.py:131  bounded_results = max(10, min(max_results or 10, 100))
bounded_results(n) == Max2(MIN_RESULTS, Min2(IF n = 0 THEN MIN_RESULTS ELSE n, MAX_RESULTS))

\* io_utils.py:36-43
_default_state(cur) ==
    [month |-> cur, monthly_count |-> 0,
     last_counts_ts |-> None, last_search_ts |-> None]

\* The state file: absent, or holding one QuotaState object.
NoContent ==
    [month |-> None, monthly_count |-> 0,
     last_counts_ts |-> None, last_search_ts |-> None]
NoFile == [exists |-> FALSE, content |-> NoContent]

\* io_utils.py:58-61
write_state(f, state) == [exists |-> TRUE, content |-> state]

\* read_state that returns the rolled-over state without saving it.
read_state_unsaved(f, cur) ==
    LET f1 == IF ~f.exists THEN write_state(f, _default_state(cur)) ELSE f
        st0 == f1.content
    IN  IF st0.month # cur
        THEN [st |-> [st0 EXCEPT !.month = cur, !.monthly_count = 0],
              file |-> f1, writes |-> 0]
        ELSE [st |-> st0, file |-> f1, writes |-> 0]

\* io_utils.py:60  json.dumps(state, indent=2): the opening brace, one
\* token per key in the order of the dict, the closing brace.
json_dumps(state) ==
    << [k |-> "{", v |-> 0],
       [k |-> "month", v |-> state.month],
       [k |-> "monthly_count", v |-> state.monthly_count],
       [k |-> "last_counts_ts", v |-> state.last_counts_ts],
       [k |-> "last_search_ts", v |-> state.last_search_ts],
       [k |-> "}", v |-> 0] >>

\* The text of state.json when its content is complete; no text when the
\* file does not exist.
text_of(f) == IF f.exists THEN json_dumps(f.content) ELSE <<>>

\* read_state that also clears the two timestamps when the month rolls over.
read_state_clearing_ts(f, cur) ==
    LET f1 == IF ~f.exists THEN write_state(f, _default_state(cur)) ELSE f
        w1 == IF ~f.exists THEN 1 ELSE 0
        st0 == f1.content
    IN  IF st0.month # cur
        THEN LET st == [st0 EXCEPT !.month = cur, !.monthly_count = 0,
                                   !.last_counts_ts = None,
                                   !.last_search_ts = None]
             IN  [st |-> st, file |-> write_state(f1, st), writes |-> w1 + 1]
        ELSE [st |-> st0, file |-> f1, writes |-> w1]

\* io_utils.py:46-55.  Returns the loaded state, the state file as the call
\* leaves it, and the number of write_state calls it made.
read_state(f, cur) ==
    LET f1 == IF ~f.exists THEN write_state(f, _default_state(cur)) ELSE f
        w1 == IF ~f.exists THEN 1 ELSE 0
        st0 == f1.content
    IN  IF st0.month # cur
        THEN LET st == [st0 EXCEPT !.month = cur, !.monthly_count = 0]
             IN  [st |-> st, file |-> write_state(f1, st), writes |-> w1 + 1]
        ELSE [st |-> st0, file |-> f1, writes |-> w1]

\* seconds_since rounding the elapsed time to the nearest second.
seconds_since_rounded(ts, t) ==
    IF ts = None THEN NEVER_SECONDS ELSE (2 * (t - ts) + TicksPerSec) \div (2 * TicksPerSec)

\* io_utils.py:64-69.  ts and t are in ticks; the result is whole seconds.
seconds_since(ts, t) ==
    IF ts = None THEN NEVER_SECONDS ELSE (t - ts) \div TicksPerSec

\* io_utils.py:72-77
guard_counts_rate(f, cur, t) ==
    LET r == read_state(f, cur)
        elapsed == seconds_since(r.st.last_counts_ts, t)
    IN  IF elapsed < FIFTEEN_MIN
        THEN [ok |-> FALSE, kind |-> "counts rate limit", a |-> elapsed, b |-> 0, file |-> r.file]
        ELSE [ok |-> TRUE, kind |-> "ok", a |-> 0, b |-> 0, file |-> r.file]

\* The search-rate guard keyed on the counts timestamp.
guard_search_rate_wrong_key(f, cur, t) ==
    LET r == read_state(f, cur)
        elapsed == seconds_since(r.st.last_counts_ts, t)
    IN  IF elapsed < FIFTEEN_MIN
        THEN [ok |-> FALSE, kind |-> "search rate limit", a |-> elapsed, b |-> 0, file |-> r.file]
        ELSE [ok |-> TRUE, kind |-> "ok", a |-> 0, b |-> 0, file |-> r.file]

\* The search-rate guard recording the call it is about to allow.
guard_search_rate_marking(f, cur, t) ==
    LET r == read_state(f, cur)
        elapsed == seconds_since(r.st.last_search_ts, t)
    IN  IF elapsed < FIFTEEN_MIN
        THEN [ok |-> FALSE, kind |-> "search rate limit", a |-> elapsed, b |-> 0, file |-> r.file]
        ELSE [ok |-> TRUE, kind |-> "ok", a |-> 0, b |-> 0,
              file |-> write_state(r.file, [r.st EXCEPT !.last_search_ts = t])]

\* io_utils.py:80-85
guard_search_rate(f, cur, t) ==
    LET r == read_state(f, cur)
        elapsed == seconds_since(r.st.last_search_ts, t)
    IN  IF elapsed < FIFTEEN_MIN
        THEN [ok |-> FALSE, kind |-> "search rate limit", a |-> elapsed, b |-> 0, file |-> r.file]
        ELSE [ok |-> TRUE, kind |-> "ok", a |-> 0, b |-> 0, file |-> r.file]

\* The quota guard comparing the used count alone with the limit.
guard_monthly_quota_used_only(f, cur, request_n) ==
    LET r == read_state(f, cur)
        used == r.st.monthly_count
    IN  IF used > QUOTA_LIMIT
        THEN [ok |-> FALSE, kind |-> "quota would be exceeded", a |-> used, b |-> request_n, file |-> r.file]
        ELSE [ok |-> TRUE, kind |-> "ok", a |-> 0, b |-> 0, file |-> r.file]

\* The quota guard denying at the limit itself.
guard_monthly_quota_at_limit(f, cur, request_n) ==
    LET r == read_state(f, cur)
        used == r.st.monthly_count
    IN  IF used + request_n >= QUOTA_LIMIT
        THEN [ok |-> FALSE, kind |-> "quota would be exceeded", a |-> used, b |-> request_n, file |-> r.file]
        ELSE [ok |-> TRUE, kind |-> "ok", a |-> 0, b |-> 0, file |-> r.file]

\* The quota guard charging the request when it allows it.
guard_monthly_quota_charging(f, cur, request_n) ==
    LET r == read_state(f, cur)
        used == r.st.monthly_count
    IN  IF used + request_n > QUOTA_LIMIT
        THEN [ok |-> FALSE, kind |-> "quota would be exceeded", a |-> used, b |-> request_n, file |-> r.file]
        ELSE [ok |-> TRUE, kind |-> "ok", a |-> 0, b |-> 0,
              file |-> write_state(r.file, [r.st EXCEPT !.monthly_count = used + request_n])]

\* io_utils.py:88-96
guard_monthly_quota(f, cur, request_n) ==
    LET r == read_state(f, cur)
        used == r.st.monthly_count
    IN  IF used + request_n > QUOTA_LIMIT
        THEN [ok |-> FALSE, kind |-> "quota would be exceeded", a |-> used, b |-> request_n, file |-> r.file]
        ELSE [ok |-> TRUE, kind |-> "ok", a |-> 0, b |-> 0, file |-> r.file]

\* bump_monthly_count storing n instead of adding it.
bump_monthly_count_overwrite(f, cur, n) ==
    LET r == read_state(f, cur)
    IN  write_state(r.file, [r.st EXCEPT !.monthly_count = n])

\* bump_monthly_count adding one more than n.
bump_monthly_count_off_by_one(f, cur, n) ==
    LET r == read_state(f, cur)
    IN  write_state(r.file, [r.st EXCEPT !.monthly_count = r.st.monthly_count + n + 1])

\* io_utils.py:99-102
bump_monthly_count(f, cur, n) ==
    LET r == read_state(f, cur)
    IN  write_state(r.file, [r.st EXCEPT !.monthly_count = r.st.monthly_count + n])

\* mark_counts_called writing the search timestamp.
mark_counts_called_wrong_key(f, cur, t) ==
    LET r == read_state(f, cur)
    IN  write_state(r.file, [r.st EXCEPT !.last_search_ts = t])

\* io_utils.py:105-108
mark_counts_called(f, cur, t) ==
    LET r == read_state(f, cur)
    IN  write_state(r.file, [r.st EXCEPT !.last_counts_ts = t])

\* io_utils.py:111-114
mark_search_called(f, cur, t) ==
    LET r == read_state(f, cur)
    IN  write_state(r.file, [r.st EXCEPT !.last_search_ts = t])

\* ------------------------------------------------------- query resolution
\* A raw query string is a sequence of runs: "w" a run of non-blank
\* characters, "s" a run of whitespace, each with its length.
RECURSIVE WordChars(_)
WordChars(runs) ==
    IF runs = <<>> THEN 0
    ELSE (IF Head(runs).kind = "w" THEN Head(runs).len ELSE 0) + WordChars(Tail(runs))

RECURSIVE Words(_)
Words(runs) ==
    IF runs = <<>> THEN 0
    ELSE (IF Head(runs).kind = "w" THEN 1 ELSE 0) + Words(Tail(runs))

\* __main__.py:76  len(" ".join(raw.split())): the words joined by one blank.
collapsed_len(runs) ==
    IF Words(runs) = 0 THEN 0 ELSE WordChars(runs) + (Words(runs) - 1)

W(n) == [kind |-> "w", len |-> n]
S(n) == [kind |-> "s", len |-> n]

\* The query source as the invocation finds it: is queries.yaml there, is
\* the key in it, and the raw string under the key.
QueryCases ==
    { [yaml |-> FALSE, present |-> FALSE, raw |-> <<>>],
      [yaml |-> TRUE, present |-> FALSE, raw |-> <<>>],
      [yaml |-> TRUE, present |-> TRUE, raw |-> <<W(20)>>],
      [yaml |-> TRUE, present |-> TRUE, raw |-> <<S(2), W(255), S(3), W(256), S(1)>>],
      [yaml |-> TRUE, present |-> TRUE, raw |-> <<W(512)>>],
      [yaml |-> TRUE, present |-> TRUE, raw |-> <<W(256), S(1), W(256)>>],
      [yaml |-> TRUE, present |-> TRUE, raw |-> <<W(513)>>] }

\* __main__.py:61-80.  ok, or the SystemExit it raises.
read_query(q) ==
    IF ~q.yaml THEN [ok |-> FALSE, err |-> "queries.yaml not found", len |-> 0]
    ELSE IF ~q.present THEN [ok |-> FALSE, err |-> "query-key not found", len |-> 0]
    ELSE IF collapsed_len(q.raw) > MAX_QUERY_LEN
         THEN [ok |-> FALSE, err |-> "query too long", len |-> collapsed_len(q.raw)]
    ELSE [ok |-> TRUE, err |-> "", len |-> collapsed_len(q.raw)]

\* client.py:32-37  XClient(): the bearer token must be set.
XClient_init(token) ==
    IF ~token THEN [ok |-> FALSE, err |-> "TW_BEARER required"]
    ELSE [ok |-> TRUE, err |-> ""]

\* __main__.py:89-90 and 132-133: read_query, then XClient().
resolve_config(q, token) ==
    LET rq == read_query(q)
        xc == XClient_init(token)
    IN  IF ~rq.ok THEN [ok |-> FALSE, err |-> rq.err, len |-> rq.len]
        ELSE IF ~xc.ok THEN [ok |-> FALSE, err |-> xc.err, len |-> rq.len]
        ELSE [ok |-> TRUE, err |-> "", len |-> rq.len]

\* ------------------------------------------------------------ normalization
\* JSON values as the normalizer sees them.  A value that may be null is a
\* sequence of at most one element: Null for None, Some(v) for v.  A string
\* is a sequence of pieces, so that + is \o.  A dict is a record of its
\* present keys, each holding a value that may be null.
Null == <<>>
Some(v) == <<v>>

\* d.get(k): None when the key is absent.
Get(d, k) == IF k \in DOMAIN d THEN d[k] ELSE Null

\* {} and []
EmptyDict == [k \in {} |-> Null]
EmptyList == <<>>

\* `x or {}`, `x or []`, `x or ""`, `x or 0`
OrDict(o) == IF o = Null THEN EmptyDict ELSE o[1]
OrList(o) == IF o = Null THEN EmptyList ELSE o[1]
OrStr(o) == IF o = Null THEN <<>> ELSE o[1]
OrZero(o) == IF o = Null THEN 0 ELSE o[1]

\* Truth value of a string that may be None: None and "" are false.
Truthy(o) == o # Null /\ o[1] # <<>>

\* hashlib.sha256(x).hexdigest(): a one-to-one map of the text to a digest
\* that is no text of the inputs.
sha256(x) == <<"sha256:">> \o x

\* sha_id that leaves the salt out of the digest.
sha_id_unsalted(s, salt_) == sha256(s)

\* io_utils.py:141-142
sha_id(s, salt_) == sha256(s \o salt_)

\* The user lookup falling back to the first author of the response.
lookup_user_first(users, author_id) ==
    LET hits == {i \in 1 .. Len(users) : users[i].id = author_id}
    IN  IF users = <<>> THEN EmptyDict
        ELSE IF hits # {} THEN users[CHOOSE i \in hits : \A j \in hits : j <= i]
        ELSE users[1]

\* io_utils.py:153 and 159  users = {user["id"]: user ...}; users.get(author_id, {}):
\* the last user of the list with that id, {} when there is none.
RECURSIVE lookup_user(_, _)
lookup_user(users, author_id) ==
    IF users = <<>> THEN EmptyDict
    ELSE IF users[Len(users)].id = author_id THEN users[Len(users)]
    ELSE lookup_user(SubSeq(users, 1, Len(users) - 1), author_id)

\* io_utils.py:174-180  the permalink of a post.
tweet_url(username, tweet_id) ==
    IF Truthy(username) /\ Truthy(tweet_id)
    THEN Some(<<"https://x.com/">> \o username[1] \o <<"/status/">> \o tweet_id[1])
    ELSE IF Truthy(tweet_id)
         THEN Some(<<"https://x.com/i/web/status/">> \o tweet_id[1])
    ELSE Null

\* A counter of public_metrics with a null counted as one.
metric_or_one(public_metrics, k) ==
    IF Get(public_metrics, k) = Null THEN 1 ELSE Get(public_metrics, k)[1]

\* io_utils.py:168-171  public_metrics.get(k) or 0
metric(public_metrics, k) == OrZero(Get(public_metrics, k))

\* io_utils.py:157-195  the row of one post.
row_of(tweet, users, query_key_, fetched_at) ==
    LET author_id == Get(tweet, "author_id")
        user == lookup_user(users, author_id)
        public_metrics == OrDict(Get(tweet, "public_metrics"))
        user_metrics == OrDict(Get(user, "public_metrics"))
        tweet_id == Get(tweet, "id")
        username == Get(user, "username")
        display_name == Get(user, "name")
        retweets == metric(public_metrics, "retweet_count")
        replies == metric(public_metrics, "reply_count")
        likes == metric(public_metrics, "like_count")
        quotes == metric(public_metrics, "quote_count")
        engagement_total == retweets + replies + likes + quotes
    IN  [tweet_url |-> tweet_url(username, tweet_id),
         tweet_id |-> tweet_id,
         posted_at_utc |-> Get(tweet, "created_at"),
         tweet_language |-> Get(tweet, "lang"),
         tweet_text |-> Get(tweet, "text"),
         author_id |-> author_id,
         author_username |-> username,
         author_display_name |-> display_name,
         author_followers |-> Get(user_metrics, "followers_count"),
         engagement_likes |-> likes,
         engagement_retweets |-> retweets,
         engagement_replies |-> replies,
         engagement_quotes |-> quotes,
         engagement_total |-> engagement_total,
         conversation_id |-> Get(tweet, "conversation_id"),
         query_key |-> query_key_,
         fetched_at_utc |-> fetched_at]

\* io_utils.py:197-202  the row with the author hidden.
anonymized(row, tweet, salt_) ==
    LET author_id == Get(tweet, "author_id")
        tweet_id == Get(tweet, "id")
    IN  [row EXCEPT
            !.author_id = Some(sha_id(OrStr(author_id), salt_)),
            !.author_username = Null,
            !.author_display_name = Null,
            !.tweet_url = IF Truthy(tweet_id)
                          THEN Some(<<"https://x.com/i/web/status/">> \o tweet_id[1])
                          ELSE @]

\* io_utils.py:145-206  one row per post of resp, in the order of "data";
\* fetched_at is the clock read at line 155.
normalize_search_json(resp, query_key_, anonymize_, salt_, fetched_at) ==
    LET data == OrList(Get(resp, "data"))
        incl == OrDict(Get(resp, "includes"))
        users == OrList(Get(incl, "users"))
    IN  [i \in 1 .. Len(data) |->
            IF anonymize_
            THEN anonymized(row_of(data[i], users, query_key_, fetched_at), data[i], salt_)
            ELSE row_of(data[i], users, query_key_, fetched_at)]

\* The response of search_recent with the posts data and the authors users:
\* the remote leaves out "includes" when it has no author to expand.
resp_of(data, users) ==
    IF users = <<>>
    THEN [data |-> Some(data)]
    ELSE [data |-> Some(data), includes |-> Some([users |-> Some(users)])]

\* --query-key of the invocations.
query_key == <<"ufc">>

\* __main__.py:147  PROJECT_SALT: the default when the variable is unset,
\* and a value set in the environment.
DEFAULT_SALT == <<"rizin-ufc-2025">>
Salts == {DEFAULT_SALT, <<"1", "x">>}

\* Decimal text of a number.
Digits == <<"0", "1", "2", "3", "4", "5", "6", "7", "8", "9">>
RECURSIVE Decimal(_)
Decimal(n) ==
    IF n < 10 THEN <<Digits[n + 1]>>
    ELSE Decimal(n \div 10) \o <<Digits[(n % 10) + 1]>>

\* The serial and the concurrent runs leave --anonymize and PROJECT_SALT at
\* their defaults (__main__.py:147 and 183); SpecNorm draws the other values.
AnonymizeArgs == {FALSE}
EnvSalts == {DEFAULT_SALT}

\* The author and the posts of a search response in those runs: post i of
\* the page, written by the one author the response expands.
PageUser ==
    [id |-> Some(<<"4", "2">>), username |-> Some(<<"al">>), name |-> Some(<<"Al">>),
     public_metrics |-> Some([followers_count |-> Some(7)])]
PagePost(i) == [id |-> Some(Decimal(i)), author_id |-> Some(<<"4", "2">>)]

\* ------------------------------------------------------------------- state
VARIABLES
    file,           \* state.json: [exists, content]
    now,            \* wall clock, in ticks
    curMonth,       \* current UTC month
    pc,             \* per process: position in the running command
    cmd,            \* per process: the command being run
    max_results,    \* per process: args.max_results of a fetch
    expected,       \* per process: the clamped size of a fetch
    response,       \* per process: "data" of the search response (post ids)
    rows,           \* per process: the normalized rows
    exit,           \* per process: the command's return code
    message,        \* per process: the denial or error it printed
    printed,        \* per process: what cmd_status loaded and printed
    pre,            \* history: state.json when the invocation started
    called,         \* history: the invocation issued its remote call
    guards,         \* history: number of guards the invocation evaluated
    lastSearchCall, \* history: time of the last successful search call
    lastCountsCall, \* history: time of the last successful counts call
    clearedSearch,  \* history: reset --what all ran since lastSearchCall
    clearedCounts,  \* history: reset --what all ran since lastCountsCall
    returned,       \* history: posts returned by search calls since the stored month began
    returnedCur,    \* history: posts returned by search calls since the current month began
    counted,        \* history: rows given to bump since the counter was last zeroed
    nResets,        \* history: number of reset invocations so far
    includes,       \* per process: "includes.users" of the search response
    anonymize,      \* per process: args.anonymize of a fetch
    salt,           \* per process: PROJECT_SALT as the fetch read it
    written,        \* per process: the artifacts the invocation has written
    snapshot,       \* per process: state.json as a mutator in progress loaded it
    overlapped,     \* history: an invocation started while another was running
    disk,           \* the text of state.json, as a sequence of tokens
    saving          \* the state a write_state call in progress is writing

clock == <<now, curMonth>>
locals == <<pc, cmd, max_results, expected, response, rows, exit, message, printed>>
calls == <<lastSearchCall, lastCountsCall, clearedSearch, clearedCounts>>
posts == <<returned, returnedCur>>
history == <<pre, called, guards, calls, posts, counted, nResets>>
norm == <<includes, anonymize, salt>>
race == <<snapshot, overlapped>>
vars == <<file, clock, locals, history, norm, written, race, disk, saving>>

NoMessage == [kind |-> "", a |-> 0, b |-> 0]
NoPrinted == [st |-> NoContent, writes |-> 0]

\* True when a load of f in month cur zeroes the counter (missing file or
\* stale month); used to keep the history variable `counted` in step.
Zeroes(f, cur) == read_state(f, cur).writes > 0

\* The history of an action that loads state.json and then adds n rows to
\* the counter (n = 0 when it adds none).
Loads(n) ==
    /\ counted' = (IF Zeroes(file, curMonth) THEN 0 ELSE counted) + n
    /\ returned' = (IF Zeroes(file, curMonth) THEN returnedCur ELSE returned)
    /\ UNCHANGED returnedCur

Init ==
    /\ file = NoFile
    /\ now = 0
    /\ curMonth = 0
    /\ pc = [p \in Procs |-> "idle"]
    /\ cmd = [p \in Procs |-> ""]
    /\ max_results = [p \in Procs |-> 0]
    /\ expected = [p \in Procs |-> 0]
    /\ response = [p \in Procs |-> <<>>]
    /\ rows = [p \in Procs |-> <<>>]
    /\ exit = [p \in Procs |-> None]
    /\ message = [p \in Procs |-> NoMessage]
    /\ printed = [p \in Procs |-> NoPrinted]
    /\ pre = [p \in Procs |-> NoFile]
    /\ called = [p \in Procs |-> FALSE]
    /\ guards = [p \in Procs |-> 0]
    /\ lastSearchCall = None
    /\ lastCountsCall = None
    /\ clearedSearch = FALSE
    /\ clearedCounts = FALSE
    /\ returned = 0
    /\ returnedCur = 0
    /\ counted = 0
    /\ nResets = 0
    /\ includes = [p \in Procs |-> <<>>]
    /\ anonymize = [p \in Procs |-> FALSE]
    /\ salt = [p \in Procs |-> <<>>]
    /\ written = [p \in Procs |-> {}]
    /\ snapshot = [p \in Procs |-> NoFile]
    /\ overlapped = FALSE
    /\ disk = text_of(file)
    /\ saving = NoContent

\* ------------------------------------------------------------------- clock
\* The local steps of a handler take no time on the scale of the clock:
\* time passes between invocations and while a remote call is in flight.
Waiting == \A q \in Procs : pc[q] \in {"idle", "s_remote", "f_remote"}

\* Time passes within the current month.
Tick(d) ==
    /\ Waiting
    /\ now + d <= MaxNow
    /\ now' = now + d
    /\ UNCHANGED <<file, curMonth, locals, history>>
    /\ UNCHANGED <<norm, written, race, saving>>
    /\ disk' = text_of(file')

\* Time passes across a month boundary.
TickMonth(d) ==
    /\ Waiting
    /\ now + d <= MaxNow
    /\ curMonth < MaxMonth
    /\ now' = now + d
    /\ curMonth' = curMonth + 1
    /\ returnedCur' = 0
    /\ UNCHANGED <<file, locals, pre, called, guards, calls, returned, counted, nResets>>
    /\ UNCHANGED <<norm, written, race, saving>>
    /\ disk' = text_of(file')

\* ------------------------------------------------------- starting, ending
\* One invocation at a time: a command starts only when no other runs.
Quiet == \A q \in Procs : pc[q] = "idle"

\* main(): parse the arguments and enter the command's handler.
Launch(p, c) ==
    /\ cmd' = [cmd EXCEPT ![p] = c]
    /\ pre' = [pre EXCEPT ![p] = file]
    /\ called' = [called EXCEPT ![p] = FALSE]
    /\ guards' = [guards EXCEPT ![p] = 0]

\* An invocation started while no other runs.
Begin(p, c) == Quiet /\ Launch(p, c)

\* The handler returns code with the message it printed.
Return(p, code, msg) ==
    /\ pc' = [pc EXCEPT ![p] = "done"]
    /\ exit' = [exit EXCEPT ![p] = code]
    /\ message' = [message EXCEPT ![p] = msg]

\* sys.exit(main()): the process ends and its locals are gone.
Exit(p) ==
    /\ pc[p] = "done"
    /\ pc' = [pc EXCEPT ![p] = "idle"]
    /\ cmd' = [cmd EXCEPT ![p] = ""]
    /\ max_results' = [max_results EXCEPT ![p] = 0]
    /\ expected' = [expected EXCEPT ![p] = 0]
    /\ response' = [response EXCEPT ![p] = <<>>]
    /\ rows' = [rows EXCEPT ![p] = <<>>]
    /\ exit' = [exit EXCEPT ![p] = None]
    /\ message' = [message EXCEPT ![p] = NoMessage]
    /\ printed' = [printed EXCEPT ![p] = NoPrinted]
    /\ pre' = [pre EXCEPT ![p] = NoFile]
    /\ called' = [called EXCEPT ![p] = FALSE]
    /\ guards' = [guards EXCEPT ![p] = 0]
    /\ UNCHANGED <<file, clock, calls, posts, counted, nResets>>
    /\ includes' = [includes EXCEPT ![p] = <<>>]
    /\ anonymize' = [anonymize EXCEPT ![p] = FALSE]
    /\ salt' = [salt EXCEPT ![p] = <<>>]
    /\ written' = [written EXCEPT ![p] = {}]
    /\ UNCHANGED <<race, saving>>
    /\ disk' = text_of(file')

\* ------------------------------------------------------------------ status
\* __main__.py:34-40
cmd_status(p) ==
    LET r == read_state(file, curMonth)
    IN  /\ Begin(p, "status")
        /\ file' = r.file
        /\ printed' = [printed EXCEPT ![p] = [st |-> r.st, writes |-> r.writes]]
        /\ Return(p, 0, NoMessage)
        /\ Loads(0)
        /\ UNCHANGED <<clock, max_results, expected, response, rows, calls, nResets>>
    /\ UNCHANGED <<norm, written, race, saving>>
    /\ disk' = text_of(file')

\* ------------------------------------------------------------------- reset
\* __main__.py:43-58
reset_state(f, cur, what) ==
    LET r == read_state(f, cur)
    IN  IF what = "monthly"
        THEN write_state(r.file, [r.st EXCEPT !.monthly_count = 0])
        ELSE write_state(r.file,
                 [month |-> cur, monthly_count |-> 0,
                  last_counts_ts |-> None, last_search_ts |-> None])

cmd_reset(p, what) ==
    /\ nResets < MaxResets
    /\ Begin(p, "reset")
    /\ file' = reset_state(file, curMonth, what)
    /\ Return(p, 0, NoMessage)
    /\ counted' = 0
    /\ returned' = (IF Zeroes(file, curMonth) THEN returnedCur ELSE returned)
    /\ UNCHANGED returnedCur
    /\ nResets' = nResets + 1
    /\ clearedSearch' = (clearedSearch \/ what = "all")
    /\ clearedCounts' = (clearedCounts \/ what = "all")
    /\ UNCHANGED <<clock, max_results, expected, response, rows, printed,
                   lastSearchCall, lastCountsCall>>
    /\ UNCHANGED <<norm, written, race, saving>>
    /\ disk' = text_of(file')

\* A step of a running handler that moves to position next.
Goto(p, next) == pc' = [pc EXCEPT ![p] = next]

Msg(k, x, y) == [kind |-> k, a |-> x, b |-> y]

\* ------------------------------------------------------------------- scout
\* main() dispatches to cmd_scout.
StartScout(p) ==
    /\ Begin(p, "scout")
    /\ Goto(p, "s_guard")
    /\ UNCHANGED <<file, clock, max_results, expected, response, rows, exit,
                   message, printed, calls, posts, counted, nResets>>
    /\ UNCHANGED <<norm, written, race, saving>>
    /\ disk' = text_of(file')

\* __main__.py:84-87
ScoutGuard(p) ==
    LET g == guard_counts_rate(file, curMonth, now)
    IN  /\ pc[p] = "s_guard"
        /\ file' = g.file
        /\ guards' = [guards EXCEPT ![p] = @ + 1]
        /\ Loads(0)
        /\ IF g.ok
           THEN Goto(p, "s_config") /\ UNCHANGED <<exit, message>>
           ELSE Return(p, 2, Msg(g.kind, g.a, g.b))
        /\ UNCHANGED <<clock, cmd, max_results, expected, response, rows, printed,
                       pre, called, calls, nResets>>
    /\ UNCHANGED <<norm, written, race, saving>>
    /\ disk' = text_of(file')

\* __main__.py:89-90: read_query raises SystemExit, XClient() raises
\* XClientError outside the try; either ends the process with code 1.
ScoutConfig(p, q, token) ==
    LET c == resolve_config(q, token)
    IN  /\ pc[p] = "s_config"
        /\ IF c.ok
           THEN Goto(p, "s_remote") /\ UNCHANGED <<exit, message>>
           ELSE Return(p, 1, Msg(c.err, c.len, 0))
        /\ UNCHANGED <<file, clock, cmd, max_results, expected, response, rows,
                       printed, history>>
    /\ UNCHANGED <<norm, written, race, saving>>
    /\ disk' = text_of(file')

\* __main__.py:92-93: counts_recent returned a payload.
ScoutRemoteOk(p) ==
    /\ pc[p] = "s_remote"
    /\ called' = [called EXCEPT ![p] = TRUE]
    /\ lastCountsCall' = now
    /\ clearedCounts' = FALSE
    /\ Goto(p, "s_mark")
    /\ UNCHANGED <<file, clock, cmd, max_results, expected, response, rows, exit,
                   message, printed, pre, guards, lastSearchCall, clearedSearch,
                   posts, counted, nResets>>
    /\ UNCHANGED <<norm, written, race, saving>>
    /\ disk' = text_of(file')

\* __main__.py:94-96: counts_recent raised XClientError.
ScoutRemoteFail(p) ==
    /\ pc[p] = "s_remote"
    /\ called' = [called EXCEPT ![p] = TRUE]
    /\ Return(p, 4, Msg("Error", 0, 0))
    /\ UNCHANGED <<file, clock, cmd, max_results, expected, response, rows,
                   printed, pre, guards, calls, posts, counted, nResets>>
    /\ UNCHANGED <<norm, written, race, saving>>
    /\ disk' = text_of(file')

\* __main__.py:97
ScoutMark(p) ==
    /\ pc[p] = "s_mark"
    /\ file' = mark_counts_called(file, curMonth, now)
    /\ Loads(0)
    /\ Goto(p, "s_raw")
    /\ UNCHANGED <<clock, cmd, max_results, expected, response, rows, exit,
                   message, printed, pre, called, guards, calls, nResets>>
    /\ UNCHANGED <<norm, written, race, saving>>
    /\ disk' = text_of(file')

\* __main__.py:99-116: save_jsonl writes the raw payload (ok), or the
\* open/write raises OSError and the process ends with code 1.
ScoutSaveRaw(p, ok) ==
    /\ pc[p] = "s_raw"
    /\ IF ok THEN Return(p, 0, NoMessage) ELSE Return(p, 1, Msg("OSError", 0, 0))
    /\ UNCHANGED <<file, clock, cmd, max_results, expected, response, rows,
                   printed, history>>
    /\ written' = [written EXCEPT ![p] = IF ok THEN @ \cup {"raw"} ELSE @]
    /\ UNCHANGED <<norm, race, saving>>
    /\ disk' = text_of(file')

\* ------------------------------------------------------------------- fetch
\* main() dispatches to cmd_fetch; __main__.py:120 clamps the size.
StartFetch(p, n) ==
    /\ Begin(p, "fetch")
    /\ max_results' = [max_results EXCEPT ![p] = n]
    /\ expected' = [expected EXCEPT ![p] = clamp(n)]
    /\ Goto(p, "f_quota")
    /\ UNCHANGED <<file, clock, response, rows, exit, message, printed,
                   calls, posts, counted, nResets>>
    /\ UNCHANGED <<norm, written, race, saving>>
    /\ disk' = text_of(file')

\* __main__.py:122-125
FetchQuotaGuard(p) ==
    LET g == guard_monthly_quota(file, curMonth, expected[p])
    IN  /\ pc[p] = "f_quota"
        /\ file' = g.file
        /\ guards' = [guards EXCEPT ![p] = @ + 1]
        /\ Loads(0)
        /\ IF g.ok
           THEN Goto(p, "f_rate") /\ UNCHANGED <<exit, message>>
           ELSE Return(p, 3, Msg(g.kind, g.a, g.b))
        /\ UNCHANGED <<clock, cmd, max_results, expected, response, rows, printed,
                       pre, called, calls, nResets>>
    /\ UNCHANGED <<norm, written, race, saving>>
    /\ disk' = text_of(file')

\* __main__.py:127-130
FetchRateGuard(p) ==
    LET g == guard_search_rate(file, curMonth, now)
    IN  /\ pc[p] = "f_rate"
        /\ file' = g.file
        /\ guards' = [guards EXCEPT ![p] = @ + 1]
        /\ Loads(0)
        /\ IF g.ok
           THEN Goto(p, "f_config") /\ UNCHANGED <<exit, message>>
           ELSE Return(p, 2, Msg(g.kind, g.a, g.b))
        /\ UNCHANGED <<clock, cmd, max_results, expected, response, rows, printed,
                       pre, called, calls, nResets>>
    /\ UNCHANGED <<norm, written, race, saving>>
    /\ disk' = text_of(file')

\* __main__.py:132-133
FetchConfig(p, q, token) ==
    LET c == resolve_config(q, token)
    IN  /\ pc[p] = "f_config"
        /\ IF c.ok
           THEN Goto(p, "f_remote") /\ UNCHANGED <<exit, message>>
           ELSE Return(p, 1, Msg(c.err, c.len, 0))
        /\ UNCHANGED <<file, clock, cmd, max_results, expected, response, rows,
                       printed, history>>
    /\ UNCHANGED <<norm, written, race, saving>>
    /\ disk' = text_of(file')

\* __main__.py:135-136: search_recent returned a payload of k posts.
FetchRemoteOk(p, k) ==
    /\ pc[p] = "f_remote"
    /\ k \in RowChoices(bounded_results(expected[p]))
    /\ response' = [response EXCEPT ![p] = [i \in 1 .. k |-> PagePost(i)]]
    /\ includes' = [includes EXCEPT ![p] = IF k > 0 THEN <<PageUser>> ELSE <<>>]
    /\ called' = [called EXCEPT ![p] = TRUE]
    /\ lastSearchCall' = now
    /\ clearedSearch' = FALSE
    /\ returned' = returned + k
    /\ returnedCur' = returnedCur + k
    /\ Goto(p, "f_mark")
    /\ UNCHANGED <<file, clock, cmd, max_results, expected, rows, exit, message,
                   printed, pre, guards, lastCountsCall, clearedCounts,
                   counted, nResets>>
    /\ UNCHANGED <<anonymize, salt, written, race, saving>>
    /\ disk' = text_of(file')

\* A failed search call that records last_search_ts all the same.
FetchRemoteFail_marking(p) ==
    /\ pc[p] = "f_remote"
    /\ called' = [called EXCEPT ![p] = TRUE]
    /\ file' = mark_search_called(file, curMonth, now)
    /\ Loads(0)
    /\ Return(p, 4, Msg("Error", 0, 0))
    /\ UNCHANGED <<clock, cmd, max_results, expected, response, rows,
                   printed, pre, guards, calls, nResets>>
    /\ UNCHANGED <<norm, written, race, saving>>
    /\ disk' = text_of(file')

\* __main__.py:137-139: search_recent raised XClientError.
FetchRemoteFail(p) ==
    /\ pc[p] = "f_remote"
    /\ called' = [called EXCEPT ![p] = TRUE]
    /\ Return(p, 4, Msg("Error", 0, 0))
    /\ UNCHANGED <<file, clock, cmd, max_results, expected, response, rows,
                   printed, pre, guards, calls, posts, counted, nResets>>
    /\ UNCHANGED <<norm, written, race, saving>>
    /\ disk' = text_of(file')

\* __main__.py:140
FetchMark(p) ==
    /\ pc[p] = "f_mark"
    /\ file' = mark_search_called(file, curMonth, now)
    /\ Loads(0)
    /\ Goto(p, "f_raw")
    /\ UNCHANGED <<clock, cmd, max_results, expected, response, rows, exit,
                   message, printed, pre, called, guards, calls, nResets>>
    /\ UNCHANGED <<norm, written, race, saving>>
    /\ disk' = text_of(file')

\* __main__.py:142-144: save_jsonl writes the raw payload, or raises OSError.
FetchSaveRaw(p, ok) ==
    /\ pc[p] = "f_raw"
    /\ IF ok
       THEN Goto(p, "f_norm") /\ UNCHANGED <<exit, message>>
       ELSE Return(p, 1, Msg("OSError", 0, 0))
    /\ UNCHANGED <<file, clock, cmd, max_results, expected, response, rows,
                   printed, history>>
    /\ written' = [written EXCEPT ![p] = IF ok THEN @ \cup {"raw"} ELSE @]
    /\ UNCHANGED <<norm, race, saving>>
    /\ disk' = text_of(file')

\* __main__.py:146-148: the salt is read from the environment and the
\* response is normalized with args.anonymize.
FetchNormalize(p, a, s) ==
    /\ pc[p] = "f_norm"
    /\ anonymize' = [anonymize EXCEPT ![p] = a]
    /\ salt' = [salt EXCEPT ![p] = s]
    /\ rows' = [rows EXCEPT ![p] =
                   normalize_search_json(resp_of(response[p], includes[p]),
                                         query_key, a, s, now)]
    /\ Goto(p, "f_bump")
    /\ UNCHANGED <<file, clock, cmd, max_results, expected, response, exit,
                   message, printed, history, includes, written, race, saving>>
    /\ disk' = text_of(file')

\* __main__.py:150
FetchBump(p) ==
    /\ pc[p] = "f_bump"
    /\ file' = bump_monthly_count(file, curMonth, Len(rows[p]))
    /\ Loads(Len(rows[p]))
    /\ Goto(p, "f_csv")
    /\ UNCHANGED <<clock, cmd, max_results, expected, response, rows, exit,
                   message, printed, pre, called, guards, calls, nResets>>
    /\ UNCHANGED <<norm, written, race, saving>>
    /\ disk' = text_of(file')

\* __main__.py:152-158: write_clean_csv writes the clean artifact and the
\* summary is printed, or the write raises OSError.
FetchWriteCsv(p, ok) ==
    /\ pc[p] = "f_csv"
    /\ IF ok THEN Return(p, 0, NoMessage) ELSE Return(p, 1, Msg("OSError", 0, 0))
    /\ UNCHANGED <<file, clock, cmd, max_results, expected, response, rows,
                   printed, history>>
    /\ written' = [written EXCEPT ![p] = IF ok THEN @ \cup {"clean"} ELSE @]
    /\ UNCHANGED <<norm, race, saving>>
    /\ disk' = text_of(file')

\* ----------------------------------------------------------- specification
Next ==
    \/ \E d \in TickSteps : Tick(d)
    \/ \E d \in TickSteps : TickMonth(d)
    \/ \E p \in SerialProcs : cmd_status(p)
    \/ \E p \in SerialProcs : \E what \in {"monthly", "all"} : cmd_reset(p, what)
    \/ \E p \in SerialProcs : StartScout(p)
    \/ \E p \in SerialProcs : \E n \in MaxResultsArgs : StartFetch(p, n)
    \/ \E p \in SerialProcs : ScoutGuard(p)
    \/ \E p \in SerialProcs : \E q \in QueryCases : \E token \in BOOLEAN : ScoutConfig(p, q, token)
    \/ \E p \in SerialProcs : ScoutRemoteOk(p)
    \/ \E p \in SerialProcs : ScoutRemoteFail(p)
    \/ \E p \in SerialProcs : ScoutMark(p)
    \/ \E p \in SerialProcs : \E ok \in BOOLEAN : ScoutSaveRaw(p, ok)
    \/ \E p \in SerialProcs : FetchQuotaGuard(p)
    \/ \E p \in SerialProcs : FetchRateGuard(p)
    \/ \E p \in SerialProcs : \E q \in QueryCases : \E token \in BOOLEAN : FetchConfig(p, q, token)
    \/ \E p \in SerialProcs : \E k \in 0 .. MAX_RESULTS : FetchRemoteOk(p, k)
    \/ \E p \in SerialProcs : FetchRemoteFail(p)
    \/ \E p \in SerialProcs : FetchMark(p)
    \/ \E p \in SerialProcs : \E ok \in BOOLEAN : FetchSaveRaw(p, ok)
    \/ \E p \in SerialProcs : \E a \in AnonymizeArgs : \E s \in EnvSalts : FetchNormalize(p, a, s)
    \/ \E p \in SerialProcs : FetchBump(p)
    \/ \E p \in SerialProcs : \E ok \in BOOLEAN : FetchWriteCsv(p, ok)
    \/ \E p \in SerialProcs : Exit(p)

Spec == Init /\ [][Next]_vars

\* ------------------------------------------------------------- properties
Count(f) == f.content.monthly_count
SearchTs(f) == f.content.last_search_ts
CountsTs(f) == f.content.last_counts_ts
Finished(p, c, code) == pc[p] = "done" /\ cmd[p] = c /\ exit[p] = code

\* C1: with one invocation at a time and a remote that returns at most the
\* clamped number of rows, the persisted monthly_count always lies in 0..100.
C1_CountWithinQuota ==
    Count(file) >= 0 /\ Count(file) <= QUOTA_LIMIT

\* A fetch has filled the quota to the limit.
C1_Witness ==
    \E p \in Procs : Finished(p, "fetch", 0) /\ Count(file) = QUOTA_LIMIT

C3_CallsNeverCloser ==
    [][\A p \in Procs :
          /\ (pc[p] = "f_remote" /\ pc'[p] = "f_mark" /\ lastSearchCall # None)
             => now - lastSearchCall >= FIFTEEN_MIN * TicksPerSec
          /\ (pc[p] = "s_remote" /\ pc'[p] = "s_mark" /\ lastCountsCall # None)
             => now - lastCountsCall >= FIFTEEN_MIN * TicksPerSec]_vars

\* C3 amended: a remote search (counts) call is issued only when state.json
\* holds no last_search_ts (last_counts_ts) or at least 900 seconds have
\* elapsed since it, and two successful calls with no `reset --what all`
\* between them are at least 900 seconds apart.
C3_CallsApartUnlessReset ==
    [][\A p \in Procs :
          /\ (pc[p] = "f_remote" /\ called'[p])
             => (SearchTs(file) = None
                 \/ now - SearchTs(file) >= FIFTEEN_MIN * TicksPerSec)
          /\ (pc[p] = "s_remote" /\ called'[p])
             => (CountsTs(file) = None
                 \/ now - CountsTs(file) >= FIFTEEN_MIN * TicksPerSec)
          /\ (pc[p] = "f_remote" /\ pc'[p] = "f_mark"
                /\ lastSearchCall # None /\ ~clearedSearch)
             => now - lastSearchCall >= FIFTEEN_MIN * TicksPerSec
          /\ (pc[p] = "s_remote" /\ pc'[p] = "s_mark"
                /\ lastCountsCall # None /\ ~clearedCounts)
             => now - lastCountsCall >= FIFTEEN_MIN * TicksPerSec]_vars

\* A second successful search call, made with the timestamp of the first
\* still in state.json.
C3_Witness ==
    \E p \in Procs :
        /\ pc[p] = "f_mark"
        /\ SearchTs(file) # None
        /\ lastSearchCall - SearchTs(file) >= FIFTEEN_MIN * TicksPerSec

\* C4 as stated: after a scout or fetch whose remote call failed,
\* monthly_count, last_counts_ts and last_search_ts are what they were
\* before the invocation.
C4_FailureLeavesStateIdentical ==
    \A p \in Procs :
        (pc[p] = "done" /\ exit[p] = 4)
        => /\ Count(file) = Count(pre[p])
           /\ CountsTs(file) = CountsTs(pre[p])
           /\ SearchTs(file) = SearchTs(pre[p])

\* C4 amended: after a scout or fetch whose remote call failed, both
\* timestamps are what they were before the invocation, and state.json is
\* the earlier one as read_state reconciles it to the month it now stores:
\* identical when that month was already stored, else month rolled forward
\* and monthly_count reset to 0 by the load of a guard.
C4_FailureLeavesReconciledState ==
    \A p \in Procs :
        (pc[p] = "done" /\ exit[p] = 4)
        => /\ called[p]
           /\ CountsTs(file) = CountsTs(pre[p])
           /\ SearchTs(file) = SearchTs(pre[p])
           /\ file = read_state(pre[p], file.content.month).file
           /\ file.content.month <= curMonth

\* A fetch whose remote call failed, started with the month and a
\* timestamp already stored.
C4_Witness ==
    \E p \in Procs :
        /\ Finished(p, "fetch", 4)
        /\ pre[p].exists
        /\ Count(pre[p]) > 0
        /\ SearchTs(pre[p]) # None
        /\ file = pre[p]

\* C5: an invocation denied by a guard (return code 2 or 3) has issued no
\* remote call, has left both timestamps as they were and has not increased
\* monthly_count; a fetch of clamped size 10 from a state of the current
\* month with monthly_count 95 is denied by the quota guard, without a
\* remote call and with state.json unchanged.
C5_DenialTouchesNothing ==
    \A p \in Procs :
        /\ (pc[p] = "done" /\ exit[p] \in {2, 3})
           => /\ ~called[p]
              /\ CountsTs(file) = CountsTs(pre[p])
              /\ SearchTs(file) = SearchTs(pre[p])
              /\ Count(file) <= Count(pre[p])
        /\ (pc[p] = "done" /\ cmd[p] = "fetch" /\ pre[p].exists
              /\ pre[p].content.month = curMonth
              /\ Count(pre[p]) = 95 /\ expected[p] = 10)
           => (exit[p] = 3 /\ ~called[p] /\ file = pre[p])

\* The fetch of size 10 at monthly_count 95 has been denied.
C5_Witness ==
    \E p \in Procs :
        /\ Finished(p, "fetch", 3)
        /\ pre[p].exists
        /\ pre[p].content.month = curMonth
        /\ Count(pre[p]) = 95
        /\ expected[p] = 10
        /\ ~called[p]
        /\ file = pre[p]

\* A step in which process p evaluates one of the three guards.
GuardStep(p) == pc[p] \in {"s_guard", "f_quota", "f_rate"} /\ pc'[p] # pc[p]

\* C6 as stated: evaluating a guard leaves state.json as it was, also when
\* the stored month is stale and when there is no state.json yet.
C6_GuardsNeverWrite ==
    [][\A p \in Procs : GuardStep(p) => file' = file]_vars

\* C6 amended: evaluating a guard never changes last_counts_ts or
\* last_search_ts; it leaves state.json as it was when the file holds the
\* current month, and otherwise leaves the file with the current month and
\* monthly_count 0 (the reconciliation of its load, which is saved).
C6_GuardsOnlyReconcile ==
    [][\A p \in Procs :
          GuardStep(p)
          => /\ CountsTs(file') = CountsTs(file)
             /\ SearchTs(file') = SearchTs(file)
             /\ (file.exists /\ file.content.month = curMonth) => file' = file
             /\ ~(file.exists /\ file.content.month = curMonth)
                => (file'.exists /\ file'.content.month = curMonth /\ Count(file') = 0)]_vars

\* The quota guard has loaded a stale month with a non-zero count and
\* allowed the fetch.
C6_Witness ==
    \E p \in Procs :
        /\ pc[p] = "f_rate"
        /\ pre[p].exists
        /\ pre[p].content.month # curMonth
        /\ Count(pre[p]) > 0
        /\ file.content.month = curMonth
        /\ Count(file) = 0
        /\ SearchTs(file) = SearchTs(pre[p])

ConfigErrors == {"queries.yaml not found", "query-key not found",
                 "query too long", "TW_BEARER required"}

\* C7: a scout or fetch that ends on a configuration error has evaluated no
\* guard, issued no remote call and left state.json as it was.
C7_ConfigErrorBeforeGuards ==
    \A p \in Procs :
        (pc[p] = "done" /\ exit[p] = 1 /\ message[p].kind \in ConfigErrors)
        => (guards[p] = 0 /\ ~called[p] /\ file = pre[p])

\* C8 as stated: between invocations the persisted monthly_count equals
\* the number of posts returned by successful search calls since the start
\* of the stored month.
C8_CountIsPostsReturned ==
    Quiet => Count(file) = returned

\* C8 amended: the persisted monthly_count equals the number of rows that
\* fetch invocations have passed to bump_monthly_count since the counter
\* was last zeroed, by the reconciliation of a load or by a reset.
C8_CountIsRowsBumped ==
    Count(file) = counted

\* Between invocations, with rows counted and with posts that were
\* returned by a search call but never counted.
C8_Witness ==
    /\ Quiet
    /\ counted > 0
    /\ returned > counted
    /\ Count(file) = counted

\* C9: read_state on a stored month that differs from the current month
\* returns monthly_count 0 and the current month and saves that state; on
\* a stored month equal to the current month it returns the stored state
\* and writes nothing.  (cmd_status prints what read_state returned.)
C9_LoadReconcilesMonth ==
    \A p \in Procs :
        (pc[p] = "done" /\ cmd[p] = "status" /\ pre[p].exists)
        => IF pre[p].content.month # curMonth
           THEN /\ printed[p].st.monthly_count = 0
                /\ printed[p].st.month = curMonth
                /\ printed[p].writes = 1
                /\ file = [exists |-> TRUE, content |-> printed[p].st]
           ELSE /\ printed[p].st = pre[p].content
                /\ printed[p].writes = 0
                /\ file = pre[p]

\* cmd_status has loaded a stale month with a non-zero count.
C9_Witness ==
    \E p \in Procs :
        /\ Finished(p, "status", 0)
        /\ pre[p].exists
        /\ pre[p].content.month # curMonth
        /\ Count(pre[p]) > 0
        /\ printed[p].st.monthly_count = 0

\* C10: guard_monthly_quota denies exactly when used + n > 100, used being
\* the monthly_count of the reconciled state: a fetch past the quota guard
\* has used + n <= 100, a fetch it denied has used + n > 100.
C10_QuotaGuardThreshold ==
    \A p \in Procs :
        /\ pc[p] = "f_rate" => Count(file) + expected[p] <= QUOTA_LIMIT
        /\ Finished(p, "fetch", 3)
           => /\ Count(file) + expected[p] > QUOTA_LIMIT
              /\ message[p].a = Count(file)
              /\ message[p].b = expected[p]

\* The quota guard has allowed a request that reaches the limit exactly.
C10_Witness ==
    \E p \in Procs :
        /\ pc[p] = "f_rate"
        /\ Count(file) + expected[p] = QUOTA_LIMIT

\* C11: for each of the two rate guards, with e the whole seconds elapsed
\* since its last_*_ts: a denied invocation (code 2) had e < 900 and its
\* message carries e; an invocation past the guard had a null timestamp or
\* e >= 900, exactly 900 included.
C11_RateGuardAtWindow ==
    \A p \in Procs :
        /\ Finished(p, "scout", 2)
           => /\ CountsTs(file) # None
              /\ (now - CountsTs(file)) \div TicksPerSec < FIFTEEN_MIN
              /\ message[p].kind = "counts rate limit"
              /\ message[p].a = (now - CountsTs(file)) \div TicksPerSec
        /\ Finished(p, "fetch", 2)
           => /\ SearchTs(file) # None
              /\ (now - SearchTs(file)) \div TicksPerSec < FIFTEEN_MIN
              /\ message[p].kind = "search rate limit"
              /\ message[p].a = (now - SearchTs(file)) \div TicksPerSec
        /\ pc[p] = "s_config"
           => \/ CountsTs(file) = None
              \/ (now - CountsTs(file)) \div TicksPerSec >= FIFTEEN_MIN
        /\ pc[p] = "f_config"
           => \/ SearchTs(file) = None
              \/ (now - SearchTs(file)) \div TicksPerSec >= FIFTEEN_MIN

\* The search-rate guard has allowed a fetch exactly 900 seconds after the
\* stored last_search_ts.
C11_Witness ==
    \E p \in Procs :
        /\ pc[p] = "f_config"
        /\ SearchTs(file) # None
        /\ now - SearchTs(file) = FIFTEEN_MIN * TicksPerSec

\* ---------------------------------------------------- concurrent fetches
\* Nothing keeps two invocations from running at once: SpecConc runs one
\* fetch in each process, started at any time, with mark_search_called and
\* bump_monthly_count in their two steps, the load (read_state) and the
\* save (write_state of the loaded state with one key changed).

\* A process is running a command.
Running(q) == pc[q] \notin {"idle", "done"}

\* main() dispatches to cmd_fetch, whatever the other process does.
SpawnFetch(p, n) ==
    /\ pc[p] = "idle"
    /\ Launch(p, "fetch")
    /\ overlapped' = (overlapped \/ \E q \in Procs \ {p} : Running(q))
    /\ max_results' = [max_results EXCEPT ![p] = n]
    /\ expected' = [expected EXCEPT ![p] = clamp(n)]
    /\ Goto(p, "f_quota")
    /\ UNCHANGED <<file, clock, response, rows, exit, message, printed,
                   calls, posts, counted, nResets, norm, written, snapshot,
                   disk, saving>>

\* io_utils.py:112  st = read_state() of mark_search_called
FetchMarkLoad(p) ==
    LET r == read_state(file, curMonth)
    IN  /\ pc[p] = "f_mark"
        /\ file' = r.file
        /\ snapshot' = [snapshot EXCEPT ![p] = r.file]
        /\ Loads(0)
        /\ Goto(p, "f_mark_save")
        /\ UNCHANGED <<clock, cmd, max_results, expected, response, rows, exit,
                       message, printed, pre, called, guards, calls, nResets,
                       norm, written, overlapped, saving>>
        /\ disk' = text_of(file')

\* io_utils.py:113-114  the loaded state is written with last_search_ts set.
FetchMarkSave(p) ==
    /\ pc[p] = "f_mark_save"
    /\ file' = mark_search_called(snapshot[p], curMonth, now)
    /\ snapshot' = [snapshot EXCEPT ![p] = NoFile]
    /\ Goto(p, "f_raw")
    /\ UNCHANGED <<clock, cmd, max_results, expected, response, rows, exit,
                   message, printed, history, norm, written, overlapped, saving>>
    /\ disk' = text_of(file')

\* io_utils.py:100  st = read_state() of bump_monthly_count
FetchBumpLoad(p) ==
    LET r == read_state(file, curMonth)
    IN  /\ pc[p] = "f_bump"
        /\ file' = r.file
        /\ snapshot' = [snapshot EXCEPT ![p] = r.file]
        /\ Loads(0)
        /\ Goto(p, "f_bump_save")
        /\ UNCHANGED <<clock, cmd, max_results, expected, response, rows, exit,
                       message, printed, pre, called, guards, calls, nResets,
                       norm, written, overlapped, saving>>
        /\ disk' = text_of(file')

\* io_utils.py:101-102  the loaded state is written with n added to the count.
FetchBumpSave(p) ==
    /\ pc[p] = "f_bump_save"
    /\ file' = bump_monthly_count(snapshot[p], curMonth, Len(rows[p]))
    /\ snapshot' = [snapshot EXCEPT ![p] = NoFile]
    /\ counted' = counted + Len(rows[p])
    /\ Goto(p, "f_csv")
    /\ UNCHANGED <<clock, cmd, max_results, expected, response, rows, exit,
                   message, printed, pre, called, guards, calls, posts, nResets,
                   norm, written, overlapped, saving>>
    /\ disk' = text_of(file')

NextConc ==
    \/ \E p \in Procs : \E n \in MaxResultsArgs : SpawnFetch(p, n)
    \/ \E p \in Procs : FetchQuotaGuard(p)
    \/ \E p \in Procs : FetchRateGuard(p)
    \/ \E p \in Procs : \E q \in QueryCases : \E token \in BOOLEAN : FetchConfig(p, q, token)
    \/ \E p \in Procs : \E k \in 0 .. MAX_RESULTS : FetchRemoteOk(p, k)
    \/ \E p \in Procs : FetchRemoteFail(p)
    \/ \E p \in Procs : FetchMarkLoad(p)
    \/ \E p \in Procs : FetchMarkSave(p)
    \/ \E p \in Procs : \E ok \in BOOLEAN : FetchSaveRaw(p, ok)
    \/ \E p \in Procs : \E a \in AnonymizeArgs : \E s \in EnvSalts : FetchNormalize(p, a, s)
    \/ \E p \in Procs : FetchBumpLoad(p)
    \/ \E p \in Procs : FetchBumpSave(p)
    \/ \E p \in Procs : \E ok \in BOOLEAN : FetchWriteCsv(p, ok)

SpecConc == Init /\ [][NextConc]_vars

\* ------------------------------------------------- normalization, by input
\* SpecNorm starts a fetch at its normalization step with a search response
\* drawn from the posts and authors below, and normalizes it with either
\* value of --anonymize and either salt.
MaxPosts == 2

\* A key of a dict: left out of the dict, or present with the value o.
Absent == <<0, 0>>
Field(k, o) == IF o = Absent THEN EmptyDict ELSE (k :> o)

\* public_metrics of a post: the key left out, null, all four counters, and
\* a dict with one counter left out and one null.
MetricsCases ==
    { Absent,
      Null,
      Some([like_count |-> Some(3), retweet_count |-> Some(1),
            reply_count |-> Some(0), quote_count |-> Some(2)]),
      Some([like_count |-> Null, reply_count |-> Some(4), quote_count |-> Some(0)]) }

\* The posts of a response: with or without an id, with no author id, the
\* id of an expanded author or the id of an author the response leaves out.
Posts ==
    { Field("id", i) @@ Field("author_id", a) @@ Field("public_metrics", m)
        @@ ("text" :> Some(<<"t">>)) :
        i \in {Absent, Some(<<"7", "1">>)},
        a \in {Absent, Some(<<"4", "2">>), Some(<<"9">>)},
        m \in MetricsCases }

\* The sequences of at most n elements of a set.
RECURSIVE SeqsUpTo(_, _)
SeqsUpTo(elems, n) ==
    IF n = 0 THEN {<<>>}
    ELSE LET shorter == SeqsUpTo(elems, n - 1)
         IN  shorter \cup { Append(s, x) : s \in {t \in shorter : Len(t) = n - 1}, x \in elems }

\* includes.users of a response: none, the author "42", and two records
\* for "42" after another author, the last one without name and metrics.
UserLists ==
    { <<>>,
      <<PageUser>>,
      << [id |-> Some(<<"5">>), username |-> Some(<<"bo">>), name |-> Some(<<"Bo">>),
          public_metrics |-> Some([followers_count |-> Some(1)])],
         PageUser,
         [id |-> Some(<<"4", "2">>), username |-> Some(<<"al">>)] >> }

InitNorm ==
    /\ response \in [Procs -> SeqsUpTo(Posts, MaxPosts)]
    /\ response[2] = <<>>
    /\ includes \in [Procs -> UserLists]
    /\ includes[2] = <<>>
    /\ file = write_state(NoFile, [_default_state(0) EXCEPT !.last_search_ts = 0])
    /\ now = 0
    /\ curMonth = 0
    /\ pc = [p \in Procs |-> IF p = 1 THEN "f_norm" ELSE "idle"]
    /\ cmd = [p \in Procs |-> IF p = 1 THEN "fetch" ELSE ""]
    /\ max_results = [p \in Procs |-> IF p = 1 THEN MIN_RESULTS ELSE 0]
    /\ expected = [p \in Procs |-> IF p = 1 THEN clamp(MIN_RESULTS) ELSE 0]
    /\ rows = [p \in Procs |-> <<>>]
    /\ exit = [p \in Procs |-> None]
    /\ message = [p \in Procs |-> NoMessage]
    /\ printed = [p \in Procs |-> NoPrinted]
    /\ pre = [p \in Procs |-> NoFile]
    /\ called = [p \in Procs |-> p = 1]
    /\ guards = [p \in Procs |-> IF p = 1 THEN 2 ELSE 0]
    /\ lastSearchCall = 0
    /\ lastCountsCall = None
    /\ clearedSearch = FALSE
    /\ clearedCounts = FALSE
    /\ returned = Len(response[1])
    /\ returnedCur = Len(response[1])
    /\ counted = 0
    /\ nResets = 0
    /\ anonymize = [p \in Procs |-> FALSE]
    /\ salt = [p \in Procs |-> <<>>]
    /\ written = [p \in Procs |-> IF p = 1 THEN {"raw"} ELSE {}]
    /\ snapshot = [p \in Procs |-> NoFile]
    /\ overlapped = FALSE
    /\ disk = text_of(file)
    /\ saving = NoContent

NextNorm ==
    \E p \in SerialProcs : \E a \in BOOLEAN : \E s \in Salts : FetchNormalize(p, a, s)

SpecNorm == InitNorm /\ [][NextNorm]_vars

\* ------------------------------------------------ write_state, step by step
\* Path.write_text opens state.json with mode "w", which creates or
\* truncates it, then writes the text and closes the file.  SpecSave follows
\* one write_state call through these steps; process 1 is the writer and
\* process 2 a later invocation that loads what the writer left.
Writer == 1
Reader == 2

\* json.loads of the text of state.json: the state when the text is a
\* complete object, a JSONDecodeError otherwise.
json_loads(text) ==
    IF /\ Len(text) = 6
       /\ text[1].k = "{"
       /\ text[2].k = "month"
       /\ text[3].k = "monthly_count"
       /\ text[4].k = "last_counts_ts"
       /\ text[5].k = "last_search_ts"
       /\ text[6].k = "}"
    THEN [ok |-> TRUE,
          st |-> [month |-> text[2].v, monthly_count |-> text[3].v,
                  last_counts_ts |-> text[4].v, last_search_ts |-> text[5].v]]
    ELSE [ok |-> FALSE, st |-> NoContent]

\* Contents of state.json before the save.
PrevStates ==
    { [month |-> m, monthly_count |-> c, last_counts_ts |-> a, last_search_ts |-> b] :
        m \in {0}, c \in {0, 90}, a \in {None, 0}, b \in {None, 0} }

PrevFiles == {NoFile} \cup { write_state(NoFile, st) : st \in PrevStates }

\* The write_state calls the program makes on state.json f at time t of
\* month cur, each with the file it overwrites (prev) and the state it is
\* given (new): the one of read_state (new file, month rollover) and, on
\* the file read_state leaves, those of mark_*, bump_monthly_count and
\* cmd_reset.
SaveCalls(f, cur, t) ==
    LET r == read_state(f, cur)
    IN  { [prev |-> f, new |-> c.st] : c \in {x \in {r} : x.writes > 0} }
        \cup
        { [prev |-> r.file, new |-> g.content] :
            g \in { mark_counts_called(r.file, cur, t),
                    mark_search_called(r.file, cur, t),
                    bump_monthly_count(r.file, cur, MIN_RESULTS),
                    reset_state(r.file, cur, "all") } }

InitSave ==
    /\ now = FIFTEEN_MIN * TicksPerSec
    /\ curMonth \in Months
    /\ \E f \in PrevFiles : \E c \in SaveCalls(f, curMonth, now) :
          file = c.prev /\ saving = c.new
    /\ disk = text_of(file)
    /\ pc = [p \in Procs |-> IF p = Writer THEN "w_open" ELSE "idle"]
    /\ pre = [p \in Procs |-> IF p = Writer THEN file ELSE NoFile]
    /\ cmd = [p \in Procs |-> ""]
    /\ max_results = [p \in Procs |-> 0]
    /\ expected = [p \in Procs |-> 0]
    /\ response = [p \in Procs |-> <<>>]
    /\ rows = [p \in Procs |-> <<>>]
    /\ exit = [p \in Procs |-> None]
    /\ message = [p \in Procs |-> NoMessage]
    /\ printed = [p \in Procs |-> NoPrinted]
    /\ called = [p \in Procs |-> FALSE]
    /\ guards = [p \in Procs |-> 0]
    /\ lastSearchCall = None
    /\ lastCountsCall = None
    /\ clearedSearch = FALSE
    /\ clearedCounts = FALSE
    /\ returned = 0
    /\ returnedCur = 0
    /\ counted = 0
    /\ nResets = 0
    /\ includes = [p \in Procs |-> <<>>]
    /\ anonymize = [p \in Procs |-> FALSE]
    /\ salt = [p \in Procs |-> <<>>]
    /\ written = [p \in Procs |-> {}]
    /\ snapshot = [p \in Procs |-> NoFile]
    /\ overlapped = FALSE

\* What a load finds in state.json while its text is text.
parsed(text) == [exists |-> TRUE, content |-> json_loads(text).st]

\* io_utils.py:59  open(STATE_PATH, "w"): the file exists and is empty.
SaveOpen(p) ==
    /\ pc[p] = "w_open"
    /\ disk' = <<>>
    /\ file' = parsed(disk')
    /\ Goto(p, "w_data")
    /\ UNCHANGED <<clock, cmd, max_results, expected, response, rows, exit,
                   message, printed, history, norm, written, race, saving>>

\* io_utils.py:59-61  the text reaches the file, n more tokens at a time.
SaveData(p, n) ==
    /\ pc[p] = "w_data"
    /\ n >= 1
    /\ Len(disk) + n <= Len(json_dumps(saving))
    /\ disk' = SubSeq(json_dumps(saving), 1, Len(disk) + n)
    /\ file' = parsed(disk')
    /\ UNCHANGED <<clock, locals, history, norm, written, race, saving>>

\* io_utils.py:59-61  the whole text is in the file; write_text closes it
\* and write_state returns.
SaveClose(p) ==
    /\ pc[p] = "w_data"
    /\ disk = json_dumps(saving)
    /\ Goto(p, "w_done")
    /\ UNCHANGED <<file, clock, cmd, max_results, expected, response, rows, exit,
                   message, printed, history, norm, written, race, disk, saving>>

\* The writing process is interrupted (a signal, a full disk, a power cut)
\* before write_state returns.
SaveInterrupted(p) ==
    /\ pc[p] \in {"w_open", "w_data"}
    /\ Goto(p, "w_killed")
    /\ UNCHANGED <<file, clock, cmd, max_results, expected, response, rows, exit,
                   message, printed, history, norm, written, race, disk, saving>>

\* io_utils.py:46-49  a later invocation loads state.json: json.loads
\* returns the state, or raises JSONDecodeError and the process ends.
LoadAfterSave(q) ==
    LET r == json_loads(disk)
    IN  /\ pc[q] = "idle"
        /\ pc[Writer] \in {"w_done", "w_killed"}
        /\ file.exists
        /\ cmd' = [cmd EXCEPT ![q] = "status"]
        /\ printed' = [printed EXCEPT ![q] = [st |-> r.st, writes |-> 0]]
        /\ IF r.ok
           THEN Return(q, 0, NoMessage)
           ELSE Return(q, 1, Msg("JSONDecodeError", Len(disk), 0))
        /\ UNCHANGED <<file, clock, max_results, expected, response, rows,
                       history, norm, written, race, disk, saving>>

NextSave ==
    \/ SaveOpen(Writer)
    \/ \E n \in 1 .. 6 : SaveData(Writer, n)
    \/ SaveClose(Writer)
    \/ SaveInterrupted(Writer)
    \/ LoadAfterSave(Reader)

SpecSave == InitSave /\ [][NextSave]_vars

\* C12: write_state is an atomic overwrite: at every point during a save,
\* and after a save interrupted at any point, state.json holds either the
\* complete previous state or the complete new state, never an empty,
\* truncated or partial text.
C12_SaveIsAtomic ==
    \/ disk = text_of(pre[Writer])
    \/ disk = json_dumps(saving)

\* C13: the quota and rate guarantees hold only for serial invocations.
\* Mutators and guards load and save state.json without a lock, so with two
\* fetch invocations at once monthly_count can pass 100 and an update can
\* be lost; as long as no invocation has started while another was running,
\* monthly_count stays within 100 and equals the rows bumped so far.
C13_OnlyOverlapBreaksQuota ==
    ~overlapped => (Count(file) <= QUOTA_LIMIT /\ Count(file) = counted)

\* Two concurrent fetches both passed both guards and both called the
\* remote, and monthly_count is past the limit.
C13_Witness ==
    /\ overlapped
    /\ \A p \in Procs : cmd[p] = "fetch" /\ guards[p] = 2 /\ called[p]
    /\ Count(file) > QUOTA_LIMIT

\* The fetch of process p has normalized its response.
Normalized(p) == pc[p] = "f_bump" /\ Len(rows[p]) = Len(response[p])

\* Post i of the response of p names an author that includes.users lacks.
AuthorMissing(p, i) ==
    \A j \in 1 .. Len(includes[p]) :
        includes[p][j].id # Get(response[p][i], "author_id")

\* The id-only permalink of a post id.
IdOnlyUrl(tweet_id) == Some(<<"https://x.com/i/web/status/">> \o tweet_id[1])

\* C14 as stated: without anonymize, the row of a post whose author is
\* absent from includes.users has author_id, author_username,
\* author_display_name and author_followers all null, and the id-only
\* permalink whenever the post id is non-null.
C14_MissingAuthorAllNull ==
    \A p \in Procs :
        (Normalized(p) /\ ~anonymize[p])
        => \A i \in 1 .. Len(rows[p]) :
              AuthorMissing(p, i)
              => /\ rows[p][i].author_id = Null
                 /\ rows[p][i].author_username = Null
                 /\ rows[p][i].author_display_name = Null
                 /\ rows[p][i].author_followers = Null
                 /\ Get(response[p][i], "id") # Null
                    => rows[p][i].tweet_url = IdOnlyUrl(Get(response[p][i], "id"))

\* C14: without anonymize, the row of a post whose author is absent from
\* includes.users has author_username, author_display_name and
\* author_followers null, author_id equal to the author id of the post
\* itself (null only when the post has none), and the id-only permalink
\* whenever the post id is non-null.
C14_MissingAuthorKeepsId ==
    \A p \in Procs :
        (Normalized(p) /\ ~anonymize[p])
        => \A i \in 1 .. Len(rows[p]) :
              AuthorMissing(p, i)
              => /\ rows[p][i].author_id = Get(response[p][i], "author_id")
                 /\ rows[p][i].author_username = Null
                 /\ rows[p][i].author_display_name = Null
                 /\ rows[p][i].author_followers = Null
                 /\ Get(response[p][i], "id") # Null
                    => rows[p][i].tweet_url = IdOnlyUrl(Get(response[p][i], "id"))

\* A response that expands other authors has a post with an id whose author
\* id "9" is not among them; its row keeps "9" and has the id-only permalink.
C14_Witness ==
    \E p \in Procs :
        /\ Normalized(p)
        /\ ~anonymize[p]
        /\ Len(includes[p]) > 0
        /\ \E i \in 1 .. Len(rows[p]) :
              /\ AuthorMissing(p, i)
              /\ Get(response[p][i], "author_id") = Some(<<"9">>)
              /\ rows[p][i].author_id = Some(<<"9">>)
              /\ rows[p][i].author_username = Null
              /\ rows[p][i].tweet_url = IdOnlyUrl(Some(<<"7", "1">>))

\* C15: with anonymize, every row has author_id equal to the digest of the
\* raw author id of its post (the empty text when the post has none)
\* followed by the salt, so a function of (raw id, salt) alone;
\* author_username and author_display_name are null; and tweet_url is the
\* id-only permalink when the post id is non-null.
C15_AnonymizedRows ==
    \A p \in Procs :
        (Normalized(p) /\ anonymize[p])
        => \A i \in 1 .. Len(rows[p]) :
              LET raw == Get(response[p][i], "author_id")
                  text == IF raw = Null THEN <<>> ELSE raw[1]
              IN  /\ rows[p][i].author_id = Some(sha256(text \o salt[p]))
                  /\ rows[p][i].author_username = Null
                  /\ rows[p][i].author_display_name = Null
                  /\ Get(response[p][i], "id") # Null
                     => rows[p][i].tweet_url = IdOnlyUrl(Get(response[p][i], "id"))

\* An anonymized row of a post with an id whose author the response
\* expands with a username, under the salt set in the environment.
C15_Witness ==
    \E p \in Procs :
        /\ Normalized(p)
        /\ anonymize[p]
        /\ salt[p] = <<"1", "x">>
        /\ \E i \in 1 .. Len(rows[p]) :
              /\ Get(response[p][i], "author_id") = Some(<<"4", "2">>)
              /\ Get(lookup_user(includes[p], Some(<<"4", "2">>)), "username") # Null
              /\ rows[p][i].author_id = Some(sha256(<<"4", "2", "1", "x">>))
              /\ rows[p][i].tweet_url = IdOnlyUrl(Some(<<"7", "1">>))

\* Counter k of post i of the response of p, 0 when public_metrics or the
\* counter is absent or null.
CounterOf(p, i, k) ==
    LET pm == Get(response[p][i], "public_metrics")
    IN  IF pm = Null THEN 0
        ELSE IF Get(pm[1], k) = Null THEN 0
        ELSE Get(pm[1], k)[1]

\* C16: in every row engagement_total is the sum of engagement_likes,
\* engagement_retweets, engagement_replies and engagement_quotes, each being
\* the counter of the post's public_metrics, or 0 when the counter or
\* public_metrics is absent or null.
C16_EngagementTotal ==
    \A p \in Procs :
        Normalized(p)
        => \A i \in 1 .. Len(rows[p]) :
              /\ rows[p][i].engagement_total =
                    rows[p][i].engagement_likes + rows[p][i].engagement_retweets
                    + rows[p][i].engagement_replies + rows[p][i].engagement_quotes
              /\ rows[p][i].engagement_likes = CounterOf(p, i, "like_count")
              /\ rows[p][i].engagement_retweets = CounterOf(p, i, "retweet_count")
              /\ rows[p][i].engagement_replies = CounterOf(p, i, "reply_count")
              /\ rows[p][i].engagement_quotes = CounterOf(p, i, "quote_count")

\* A response with a post whose public_metrics has a null like_count and no
\* retweet_count, next to a post with all four counters.
C16_Witness ==
    \E p \in Procs :
        /\ Normalized(p)
        /\ \E i, j \in 1 .. Len(rows[p]) :
              /\ Get(response[p][i], "public_metrics") # Null
              /\ "like_count" \in DOMAIN Get(response[p][i], "public_metrics")[1]
              /\ "retweet_count" \notin DOMAIN Get(response[p][i], "public_metrics")[1]
              /\ rows[p][i].engagement_total = 4
              /\ rows[p][j].engagement_total = 6

\* C17: in a fetch the size is clamped to max(10, min(requested, 100)), the
\* quota guard is evaluated with the clamped size, then the search-rate
\* guard, and the remote call is issued with the same clamped size only
\* after both guards allowed; a fetch that both guards would deny reports
\* the quota denial (code 3), so a rate denial (code 2) is reported only
\* when the quota guard allowed.
C17_FetchOrder ==
    \A p \in Procs :
        cmd[p] = "fetch"
        => /\ expected[p] = (IF max_results[p] > MAX_RESULTS THEN MAX_RESULTS
                             ELSE IF max_results[p] < MIN_RESULTS THEN MIN_RESULTS
                             ELSE max_results[p])
           /\ pc[p] = "f_quota" => guards[p] = 0 /\ ~called[p]
           /\ pc[p] = "f_rate"
              => guards[p] = 1 /\ ~called[p] /\ Count(file) + expected[p] <= QUOTA_LIMIT
           /\ Finished(p, "fetch", 3)
              => guards[p] = 1 /\ ~called[p] /\ message[p].b = expected[p]
           /\ Finished(p, "fetch", 2)
              => guards[p] = 2 /\ ~called[p] /\ Count(file) + expected[p] <= QUOTA_LIMIT
           /\ pc[p] = "f_remote"
              => guards[p] = 2 /\ bounded_results(expected[p]) = expected[p]
           /\ called[p]
              => /\ guards[p] = 2
                 /\ Len(response[p]) <= expected[p]

\* A fetch for 5 rows, clamped to 10, that the quota guard and the
\* search-rate guard would both deny has reported the quota denial.
C17_Witness ==
    \E p \in Procs :
        /\ Finished(p, "fetch", 3)
        /\ max_results[p] < MIN_RESULTS
        /\ message[p].b = MIN_RESULTS
        /\ SearchTs(file) # None
        /\ (now - SearchTs(file)) \div TicksPerSec < FIFTEEN_MIN

\* C18: in a fetch each mutation follows the success of the step before it
\* in the sequence remote call, mark last_search_ts, persist raw payload,
\* normalize, bump monthly_count, write clean artifact.  last_search_ts is
\* written only by the step after the remote call returned a payload;
\* monthly_count is raised only once the raw payload is persisted and the
\* rows are normalized, and before the clean artifact is written; the raw
\* payload is persisted only after the mark and the clean artifact only
\* after the bump.
C18_MutationsInOrder ==
    [][\A p \in Procs :
          cmd[p] = "fetch"
          => /\ SearchTs(file') # SearchTs(file)
                => /\ pc[p] = "f_mark"
                   /\ called[p]
                   /\ lastSearchCall = now
                   /\ SearchTs(file') = now
                   /\ written[p] = {}
             /\ Count(file') > Count(file)
                => /\ pc[p] = "f_bump"
                   /\ SearchTs(file) = lastSearchCall
                   /\ written[p] = {"raw"}
                   /\ Len(rows[p]) = Len(response[p])
                   /\ Count(file') = Len(rows[p])
                        + (IF file.content.month = curMonth THEN Count(file) ELSE 0)
             /\ ("raw" \in written'[p] /\ "raw" \notin written[p])
                => pc[p] = "f_raw" /\ SearchTs(file) = lastSearchCall
             /\ ("clean" \in written'[p] /\ "clean" \notin written[p])
                => pc[p] = "f_csv" /\ "raw" \in written[p]
    ]_vars

\* A fetch has gone through the whole sequence: the timestamp is the time of
\* its call, both artifacts are written and the counter is up by its rows.
C18_Witness ==
    \E p \in Procs :
        /\ Finished(p, "fetch", 0)
        /\ written[p] = {"raw", "clean"}
        /\ Len(rows[p]) > 0
        /\ SearchTs(file) = lastSearchCall
        /\ Count(pre[p]) > 0
        /\ Count(file) = Count(pre[p]) + Len(rows[p])

\* C19: the size is clamped to at least 10 before the quota guard, so a
\* fetch that finds a monthly_count above 90 for the current month is
\* denied by the quota guard whatever size it asks for: it issues no remote
\* call and leaves state.json as it was; and a monthly_count above 90 for
\* the current month changes only by a reset.
C19_Past90FetchDenied ==
    /\ [](\A p \in Procs :
            (/\ cmd[p] = "fetch"
             /\ pc[p] # "f_quota"
             /\ pre[p].exists
             /\ pre[p].content.month = curMonth
             /\ Count(pre[p]) > QUOTA_LIMIT - MIN_RESULTS)
            => /\ Finished(p, "fetch", 3)
               /\ guards[p] = 1
               /\ ~called[p]
               /\ file = pre[p])
    /\ [][(/\ file.exists
           /\ file.content.month = curMonth
           /\ Count(file) > QUOTA_LIMIT - MIN_RESULTS
           /\ Count(file') # Count(file))
          => \E p \in Procs : cmd'[p] = "reset" /\ Count(file') = 0]_vars

\* A fetch for 5 rows that found monthly_count = 95 was denied by the quota
\* guard at a time when the search-rate guard would have allowed it.
C19_Witness ==
    \E p \in Procs :
        /\ Finished(p, "fetch", 3)
        /\ max_results[p] = 5
        /\ Count(pre[p]) = QUOTA_LIMIT - 5
        /\ pre[p].content.month = curMonth
        /\ (now - SearchTs(file)) \div TicksPerSec >= FIFTEEN_MIN
        /\ file = pre[p]

\* The clamped sizes a fetch can ask the quota guard for.
ClampedSizes == { clamp(n) : n \in MaxResultsArgs }

\* C20 as stated: no step of a scout invocation changes monthly_count or
\* last_search_ts, and no step of a fetch invocation changes last_counts_ts.
C20_DisjointBudgets ==
    [][\A p \in Procs :
          /\ cmd[p] = "scout"
             => Count(file') = Count(file) /\ SearchTs(file') = SearchTs(file)
          /\ cmd[p] = "fetch"
             => CountsTs(file') = CountsTs(file)
    ]_vars

\* C20: no step of a scout invocation changes last_search_ts, and it changes
\* monthly_count only by the reconciliation of a stale month to 0; no step
\* of a fetch invocation changes last_counts_ts.  So a fetch step leaves the
\* outcome of the counts-rate guard as it was, and a scout step leaves the
\* outcomes of the search-rate guard and of the quota guard as they were.
C20_DisjointButReconciled ==
    [][\A p \in Procs :
          /\ cmd[p] = "scout"
             => /\ SearchTs(file') = SearchTs(file)
                /\ \/ Count(file') = Count(file)
                   \/ file.content.month # curMonth /\ Count(file') = 0
                /\ guard_search_rate(file', curMonth, now).ok
                     = guard_search_rate(file, curMonth, now).ok
                /\ \A n \in ClampedSizes :
                      guard_monthly_quota(file', curMonth, n).ok
                        = guard_monthly_quota(file, curMonth, n).ok
          /\ cmd[p] = "fetch"
             => /\ CountsTs(file') = CountsTs(file)
                /\ guard_counts_rate(file', curMonth, now).ok
                     = guard_counts_rate(file, curMonth, now).ok
    ]_vars

\* A scout that started on a state.json of an earlier month with a non-zero
\* count and a search timestamp has run to its end: the count is 0, the
\* search timestamp is the one it found, the counts timestamp is its own.
C20_Witness ==
    \E p \in Procs :
        /\ Finished(p, "scout", 0)
        /\ pre[p].exists
        /\ pre[p].content.month # curMonth
        /\ Count(pre[p]) > 0
        /\ Count(file) = 0
        /\ SearchTs(pre[p]) # None
        /\ SearchTs(file) = SearchTs(pre[p])
        /\ CountsTs(file) = now

\* ------------------------------------------------- month rollover and rate
\* The invocation of p started on a state.json of another month.
StaleStart(p) == pre[p].exists /\ pre[p].content.month # curMonth

\* The state read_state saves on a month rollover, as C21 states it: the
\* stored state with the month and the counter replaced, all else kept.
RolledOver(st) == [st EXCEPT !.month = curMonth, !.monthly_count = 0]

\* C21: when an invocation starts on a state.json of an earlier month, the
\* reconciliation of read_state replaces month and monthly_count and keeps
\* last_counts_ts and last_search_ts: what cmd_status loads, and what a
\* denied scout or fetch leaves in state.json, is the stored state with
\* only those two keys replaced.  So the rate guards judge the new month
\* by the timestamps of the old one: a scout (fetch) past its rate guard
\* had a null stored last_counts_ts (last_search_ts) or 900 whole seconds
\* elapsed since it, and one started less than 900 seconds after it is
\* denied with code 2.
C21_RolloverKeepsTimestamps ==
    \A p \in Procs :
        StaleStart(p) =>
            /\ Finished(p, "status", 0)
               => /\ printed[p].st = RolledOver(pre[p].content)
                  /\ file.content = RolledOver(pre[p].content)
            /\ (Finished(p, "scout", 2) \/ Finished(p, "fetch", 2))
               => file.content = RolledOver(pre[p].content)
            /\ pc[p] = "s_config"
               => \/ CountsTs(pre[p]) = None
                  \/ seconds_since(CountsTs(pre[p]), now) >= FIFTEEN_MIN
            /\ pc[p] = "f_config"
               => \/ SearchTs(pre[p]) = None
                  \/ seconds_since(SearchTs(pre[p]), now) >= FIFTEEN_MIN
            /\ (pc[p] = "done" /\ cmd[p] = "scout" /\ CountsTs(pre[p]) # None
                  /\ seconds_since(CountsTs(pre[p]), now) < FIFTEEN_MIN)
               => exit[p] = 2
            /\ (pc[p] = "done" /\ cmd[p] = "fetch" /\ SearchTs(pre[p]) # None
                  /\ seconds_since(SearchTs(pre[p]), now) < FIFTEEN_MIN)
               => exit[p] = 2

\* A fetch started in a new month, 899 whole seconds after the search call
\* of the month before, has been denied by the search-rate guard: the file
\* holds the new month, a zero counter and the old last_search_ts.
C21_Witness ==
    \E p \in Procs :
        /\ Finished(p, "fetch", 2)
        /\ StaleStart(p)
        /\ Count(pre[p]) > 0
        /\ SearchTs(pre[p]) # None
        /\ seconds_since(SearchTs(pre[p]), now) = FIFTEEN_MIN - 1
        /\ file.content.month = curMonth
        /\ Count(file) = 0
        /\ SearchTs(file) = SearchTs(pre[p])
        /\ message[p].kind = "search rate limit"

====
